---- MODULE Spec2Model ----
(***************************************************************************)
(* State-machine model of shill's Throttler (src/shill/throttler.cc): the  *)
(* class that drives /sbin/tc, one process at a time, over the network     *)
(* interfaces of the device.                                               *)
(*                                                                         *)
(* The member functions are operators from a state record to a state       *)
(* record, so that the calls they make to each other (Throttle -> Done ->  *)
(* ClearTCState, OnProcessExited -> Throttle -> StartTCForCommands, ...)   *)
(* compose exactly as in the source.  Every action of Next is one entry    *)
(* into the class from outside: a public call, or one of the two           *)
(* callbacks the class registers with the event loop.                      *)
(***************************************************************************)
EXTENDS Integers, Sequences, FiniteSets, TLC

(***************************************************************************)
(* Bounds of the exploration.                                              *)
(***************************************************************************)
MaxCalls == 3         \* calls of the public member functions
MaxIfaces == 2        \* devices the manager knows

(***************************************************************************)
(* Inputs.                                                                 *)
(***************************************************************************)
DeviceNames == <<"eth0", "wlan0", "usb0", "ppp0", "tun0", "tap0", "wwan0", "br0">>
\* what manager_->GetDeviceInterfaceNames() can return: no device, or the
\* devices the manager knows
InterfaceLists == {<<>>, SubSeq(DeviceNames, 1, MaxIfaces)}
\* the k-th hot-plugged interface handed to ApplyThrottleToNewInterface: a
\* device that was not in the manager's list
NewInterface(k) == DeviceNames[MaxIfaces + k]
ExitStatuses == {0, 1}          \* EXIT_SUCCESS, a failure

(***************************************************************************)
(* uint32_t.  A rate is held as two 16-bit limbs, so that every value of   *)
(* the type, and the wrap-around of its arithmetic, can be written down.   *)
(***************************************************************************)
Limb == 65536
U32(n) == [hi |-> n \div Limb, lo |-> n % Limb]
U32Zero == U32(0)
\* r * 2 in uint32_t arithmetic
U32Times2(r) ==
  [hi |-> (r.hi * 2 + (r.lo * 2) \div Limb) % Limb, lo |-> (r.lo * 2) % Limb]
U32Div10(r) ==
  [hi |-> r.hi \div 10, lo |-> ((r.hi % 10) * Limb + r.lo) \div 10]
U32Mod10(r) == ((r.hi % 10) * Limb + r.lo) % 10

\* (upload_rate_kbits, download_rate_kbits) arguments: neither direction,
\* both directions, upload only
RatePairs == {<<U32(0), U32(0)>>, <<U32(1000), U32(500)>>, <<U32(2000), U32(0)>>}

\* download_rate_kbits arguments over the whole range of uint32_t: 1, 500,
\* 2^31 - 1, 2^31, 3000000000 and 2^32 - 1
DownloadRates ==
  {U32(1), U32(500), [hi |-> 32767, lo |-> 65535], [hi |-> 32768, lo |-> 0],
   [hi |-> 45776, lo |-> 24064], [hi |-> 65535, lo |-> 65535]}

NullCallback == 0               \* a ResultCallback with is_null()
NoHandler == 0                  \* tc_stdin_handler_ holds nothing
NoInterface == ""               \* std::string().empty()

kSuccess == "kSuccess"
kInvalidArguments == "kInvalidArguments"
kOperationFailed == "kOperationFailed"
kWrongState == "kWrongState"

(***************************************************************************)
(* Command templates.  A command line is a sequence of pieces; a           *)
(* placeholder is a piece of its own, so substitution is replacement of    *)
(* the pieces equal to the placeholder.                                    *)
(***************************************************************************)
kTemplateInterface == "${INTERFACE}"
kTemplateULRate == "${ULRATE}"
kTemplateDLRate == "${DLRATE}"
kTemplateBurst == "${BURST}"

kTCCleanUpCmds ==
  << <<"qdisc del dev ", kTemplateInterface, " root\n">>,
     <<"qdisc del dev ", kTemplateInterface, " ingress\n">> >>

kTCThrottleUplinkCmds ==
  << <<"qdisc add dev ", kTemplateInterface, " root handle 1: htb default 11\n">>,
     <<"class add dev ", kTemplateInterface, " parent 1: classid 1:1 htb rate ",
       kTemplateULRate, "\n">>,
     <<"class add dev ", kTemplateInterface, " parent 1:1 classid 1:11 htb rate ",
       kTemplateULRate, " prio 0 quantum 300\n">> >>

kTCThrottleDownlinkCmds ==
  << <<"qdisc add dev ", kTemplateInterface, " handle ffff: ingress\n">>,
     <<"filter add dev ", kTemplateInterface,
       " parent ffff: protocol all  prio 50 u32 match ip src 0.0.0.0/0 police rate ",
       kTemplateDLRate, " burst ", kTemplateBurst, "k mtu 66000 drop flowid :1\n">> >>

DigitChar == <<"0", "1", "2", "3", "4", "5", "6", "7", "8", "9">>

RECURSIVE UintToString(_)
UintToString(r) ==
  IF r.hi = 0 /\ r.lo < 10 THEN DigitChar[r.lo + 1]
  ELSE UintToString(U32Div10(r)) \o DigitChar[U32Mod10(r) + 1]

ReplaceSubstringsAfterOffset(command, find, replace) ==
  [i \in DOMAIN command |-> IF command[i] = find THEN replace ELSE command[i]]

RECURSIVE Concat(_)
Concat(seqs) == IF seqs = <<>> THEN <<>> ELSE Head(seqs) \o Concat(Tail(seqs))

(***************************************************************************)
(* The state.                                                              *)
(***************************************************************************)
VARIABLES
  tc_pid,                       \* pid of the tracked tc process, 0 if none
  tc_commands,                  \* the command list of the tracked process
  tc_current_interface,         \* interface being throttled, "" if none
  tc_interfaces_to_throttle,    \* interfaces still to do (popped from the back)
  callback_,                    \* the stored completion callback
  desired_throttling_enabled,
  desired_upload_rate_kbits,
  desired_download_rate_kbits,
  tc_stdin,                     \* write end of the tracked process's stdin pipe
  tc_stdin_handler,             \* fd the write-ready watcher is armed for
  procs,                        \* environment: the tc processes spawned and not
                                \* yet exited, pid |-> callback_ at the spawn
  openFds,                      \* environment: stdin pipes not yet closed
  watched,                      \* history: the commands of the process whose
                                \* pipe the write-ready watcher was armed for
  aborted,                      \* a CHECK failed: the program is gone
  reqCount,                     \* history: top-level requests made so far
  applyCount,                   \* history: ApplyThrottleToNewInterface calls
  chain,                        \* history: the latest accepted top-level request
                                \* and what ApplyThrottleToNewInterface did since
  spawnLog,                     \* history: the spawns since that request
  chainResult,                  \* history: the runs of that request's callback
  last                          \* history: what the latest entry did

vars == <<tc_pid, tc_commands, tc_current_interface, tc_interfaces_to_throttle,
          callback_, desired_throttling_enabled, desired_upload_rate_kbits,
          desired_download_rate_kbits, tc_stdin, tc_stdin_handler, procs,
          openFds, watched, aborted, reqCount, applyCount, chain, spawnLog, chainResult,
          last>>

\* The program state as one record; ret, queried, spawns and runs describe the
\* entry that is running (return value, did it call GetDeviceInterfaceNames,
\* the processes it spawned, the callbacks it ran); writes are its calls of
\* file_io_->Write.
Cur ==
  [tc_pid |-> tc_pid, tc_commands |-> tc_commands,
   tc_current_interface |-> tc_current_interface,
   tc_interfaces_to_throttle |-> tc_interfaces_to_throttle,
   callback_ |-> callback_,
   desired_throttling_enabled |-> desired_throttling_enabled,
   desired_upload_rate_kbits |-> desired_upload_rate_kbits,
   desired_download_rate_kbits |-> desired_download_rate_kbits,
   tc_stdin |-> tc_stdin, tc_stdin_handler |-> tc_stdin_handler,
   procs |-> procs, openFds |-> openFds, watched |-> watched,
   aborted |-> aborted,
   ret |-> TRUE, queried |-> FALSE, spawns |-> <<>>, runs |-> <<>>,
   writes |-> <<>>]

\* The callbacks the running processes were spawned under.
Owners(running) == {running[p] : p \in DOMAIN running}

\* The kernel hands out the lowest number not in use (the Throttler compares
\* a pid with 0 and an fd with tc_stdin_, nothing else).
LowestFree(used) == CHOOSE n \in 1..(Cardinality(used) + 1) :
                      n \notin used /\ \A m \in 1..(n - 1) : m \in used

\* A failed CHECK: the process aborts where it stands.
CheckFailed(s) == [s EXCEPT !.aborted = TRUE, !.ret = FALSE]

(***************************************************************************)
(* The member functions.                                                   *)
(***************************************************************************)
ClearTCState(s) ==
  [s EXCEPT !.tc_pid = 0,
            !.tc_commands = <<>>,
            !.tc_current_interface = NoInterface,
            !.tc_interfaces_to_throttle = <<>>,
            !.callback_ = NullCallback]

Done(s, callback, error_type) ==
  LET ran == IF callback # NullCallback
               THEN [s EXCEPT !.runs = Append(@, [callback |-> callback,
                                                  error |-> error_type,
                                                  running |-> Owners(s.procs)])]
               ELSE s
  IN  ClearTCState(ran)

\* ClearThrottleStatus zeroing the rates but leaving the flag.
ClearThrottleStatusKeepsFlag(s) ==
  [s EXCEPT !.desired_upload_rate_kbits = U32Zero,
            !.desired_download_rate_kbits = U32Zero]

ClearThrottleStatus(s) ==
  [s EXCEPT !.desired_throttling_enabled = FALSE,
            !.desired_upload_rate_kbits = U32Zero,
            !.desired_download_rate_kbits = U32Zero]

\* Returns the popped name and the state with the queue shortened.
GetNextInterface(s) ==
  LET q == s.tc_interfaces_to_throttle
  IN  IF q # <<>>
        THEN [interface_name |-> q[Len(q)],
              s |-> [s EXCEPT !.tc_interfaces_to_throttle = SubSeq(q, 1, Len(q) - 1)]]
        ELSE [interface_name |-> NoInterface, s |-> s]

\* nonBlockingFails is the result of file_io_->SetFdNonBlocking(tc_stdin_).
StartTCForCommands(s, commands, nonBlockingFails) ==
  IF s.tc_pid # 0
    THEN CheckFailed(s)
    ELSE
      LET pid == LowestFree(DOMAIN s.procs)
          fd == LowestFree(s.openFds)
          s1 == [s EXCEPT !.tc_commands = commands,
                          !.tc_pid = pid,
                          !.tc_stdin = fd,
                          !.procs = [p \in DOMAIN @ \cup {pid} |->
                                       IF p = pid THEN s.callback_ ELSE @[p]],
                          !.openFds = @ \cup {fd},
                          !.spawns = Append(@,
                              [interface |-> s.tc_current_interface,
                               callback |-> s.callback_,
                               running |-> Owners(s.procs),
                               failed |-> nonBlockingFails])]
      IN  IF nonBlockingFails
            THEN [Done(s1, s1.callback_, kOperationFailed) EXCEPT !.ret = FALSE]
            ELSE [s1 EXCEPT !.tc_stdin_handler = fd, !.watched = commands,
                            !.ret = TRUE]

\* ThrottleCommands leaving the burst placeholder of the downlink filter line
\* as it is.
ThrottleCommandsNoBurst(interface_name, upload_rate_kbits, download_rate_kbits) ==
  LET cleanup ==
        [i \in DOMAIN kTCCleanUpCmds |->
           ReplaceSubstringsAfterOffset(kTCCleanUpCmds[i], kTemplateInterface,
                                        interface_name)]
      ulrate == UintToString(upload_rate_kbits) \o "kbit"
      uplink ==
        IF upload_rate_kbits # U32Zero
          THEN [i \in DOMAIN kTCThrottleUplinkCmds |->
                  ReplaceSubstringsAfterOffset(
                    ReplaceSubstringsAfterOffset(kTCThrottleUplinkCmds[i],
                                                 kTemplateInterface, interface_name),
                    kTemplateULRate, ulrate)]
          ELSE <<>>
      dlrate == UintToString(download_rate_kbits) \o "kbit"
      downlink ==
        IF download_rate_kbits # U32Zero
          THEN [i \in DOMAIN kTCThrottleDownlinkCmds |->
                  ReplaceSubstringsAfterOffset(
                    ReplaceSubstringsAfterOffset(kTCThrottleDownlinkCmds[i],
                                                 kTemplateInterface, interface_name),
                    kTemplateDLRate, dlrate)]
          ELSE <<>>
  IN  cleanup \o uplink \o downlink

ThrottleCommands(interface_name, upload_rate_kbits, download_rate_kbits) ==
  LET cleanup ==
        [i \in DOMAIN kTCCleanUpCmds |->
           ReplaceSubstringsAfterOffset(kTCCleanUpCmds[i], kTemplateInterface,
                                        interface_name)]
      ulrate == UintToString(upload_rate_kbits) \o "kbit"
      uplink ==
        IF upload_rate_kbits # U32Zero
          THEN [i \in DOMAIN kTCThrottleUplinkCmds |->
                  ReplaceSubstringsAfterOffset(
                    ReplaceSubstringsAfterOffset(kTCThrottleUplinkCmds[i],
                                                 kTemplateInterface, interface_name),
                    kTemplateULRate, ulrate)]
          ELSE <<>>
      dlrate == UintToString(download_rate_kbits) \o "kbit"
      to_burst == UintToString(U32Times2(download_rate_kbits))
      downlink ==
        IF download_rate_kbits # U32Zero
          THEN [i \in DOMAIN kTCThrottleDownlinkCmds |->
                  ReplaceSubstringsAfterOffset(
                    ReplaceSubstringsAfterOffset(
                      ReplaceSubstringsAfterOffset(kTCThrottleDownlinkCmds[i],
                                                   kTemplateInterface, interface_name),
                      kTemplateDLRate, dlrate),
                    kTemplateBurst, to_burst)]
          ELSE <<>>
  IN  cleanup \o uplink \o downlink

\* Throttle without its test for an operation in progress.
ThrottleNoStateCheck(s, callback, interface_name, upload_rate_kbits, download_rate_kbits, nonBlockingFails) ==
  StartTCForCommands(
    [s EXCEPT !.callback_ = callback, !.tc_current_interface = interface_name],
    ThrottleCommands(interface_name, upload_rate_kbits, download_rate_kbits),
    nonBlockingFails)

Throttle(s, callback, interface_name, upload_rate_kbits, download_rate_kbits, nonBlockingFails) ==
  IF s.tc_pid # 0 \/ s.tc_commands # <<>> \/ s.tc_current_interface # NoInterface
    THEN [Done(s, callback, kWrongState) EXCEPT !.ret = FALSE]
    ELSE StartTCForCommands(
           [s EXCEPT !.callback_ = callback,
                     !.tc_current_interface = interface_name],
           ThrottleCommands(interface_name, upload_rate_kbits, download_rate_kbits),
           nonBlockingFails)

\* ThrottleInterfaces fetching the interface list before it looks at the rates.
ThrottleInterfacesQueriesFirst(s, callback, upload_rate_kbits, download_rate_kbits, interfaces, nonBlockingFails) ==
  LET g == GetNextInterface([s EXCEPT !.tc_interfaces_to_throttle = interfaces,
                                      !.queried = TRUE])
  IN  IF upload_rate_kbits = U32Zero /\ download_rate_kbits = U32Zero
        THEN [Done(g.s, callback, kInvalidArguments) EXCEPT !.ret = FALSE]
        ELSE IF g.interface_name = NoInterface
          THEN [Done(g.s, callback, kOperationFailed) EXCEPT !.ret = FALSE]
          ELSE Throttle([g.s EXCEPT !.desired_throttling_enabled = TRUE,
                                    !.desired_upload_rate_kbits = upload_rate_kbits,
                                    !.desired_download_rate_kbits = download_rate_kbits],
                        callback, g.interface_name, upload_rate_kbits,
                        download_rate_kbits, nonBlockingFails)

\* ThrottleInterfaces without its test for an empty interface list.
ThrottleInterfacesNoEmptyCheck(s, callback, upload_rate_kbits, download_rate_kbits, interfaces, nonBlockingFails) ==
  IF upload_rate_kbits = U32Zero /\ download_rate_kbits = U32Zero
    THEN [Done(s, callback, kInvalidArguments) EXCEPT !.ret = FALSE]
    ELSE
      LET g == GetNextInterface([s EXCEPT !.tc_interfaces_to_throttle = interfaces,
                                          !.queried = TRUE])
      IN  Throttle([g.s EXCEPT !.desired_throttling_enabled = TRUE,
                               !.desired_upload_rate_kbits = upload_rate_kbits,
                               !.desired_download_rate_kbits = download_rate_kbits],
                   callback, g.interface_name, upload_rate_kbits,
                   download_rate_kbits, nonBlockingFails)

ThrottleInterfaces(s, callback, upload_rate_kbits, download_rate_kbits, interfaces, nonBlockingFails) ==
  IF upload_rate_kbits = U32Zero /\ download_rate_kbits = U32Zero
    THEN [Done(s, callback, kInvalidArguments) EXCEPT !.ret = FALSE]
    ELSE
      LET g == GetNextInterface([s EXCEPT !.tc_interfaces_to_throttle = interfaces,
                                          !.queried = TRUE])
      IN  IF g.interface_name = NoInterface
            THEN [Done(g.s, callback, kOperationFailed) EXCEPT !.ret = FALSE]
            ELSE Throttle([g.s EXCEPT !.desired_throttling_enabled = TRUE,
                                      !.desired_upload_rate_kbits = upload_rate_kbits,
                                      !.desired_download_rate_kbits = download_rate_kbits],
                          callback, g.interface_name, upload_rate_kbits,
                          download_rate_kbits, nonBlockingFails)

DisableCommands(interfaces) ==
  Concat([n \in DOMAIN interfaces |->
            [i \in DOMAIN kTCCleanUpCmds |->
               ReplaceSubstringsAfterOffset(kTCCleanUpCmds[i], kTemplateInterface,
                                            interfaces[n])]])

DisableThrottlingOnAllInterfaces(s, callback, interfaces, nonBlockingFails) ==
  LET r == StartTCForCommands([s EXCEPT !.callback_ = callback, !.queried = TRUE],
                              DisableCommands(interfaces), nonBlockingFails)
  IN  IF ~r.aborted /\ r.ret THEN ClearThrottleStatus(r) ELSE r

\* ApplyThrottleToNewInterface without its test of the desired state.
ApplyThrottleToNewInterfaceNoDesiredCheck(s, interface_name, nonBlockingFails) ==
  IF s.tc_pid # 0
    THEN [s EXCEPT !.tc_interfaces_to_throttle = Append(@, interface_name),
                   !.ret = TRUE]
    ELSE Throttle(s, NullCallback, interface_name,
                  s.desired_upload_rate_kbits, s.desired_download_rate_kbits,
                  nonBlockingFails)

ApplyThrottleToNewInterface(s, interface_name, nonBlockingFails) ==
  IF ~s.desired_throttling_enabled
    THEN [s EXCEPT !.ret = FALSE]
    ELSE IF s.tc_pid # 0
      THEN [s EXCEPT !.tc_interfaces_to_throttle = Append(@, interface_name),
                     !.ret = TRUE]
      ELSE Throttle(s, NullCallback, interface_name,
                    s.desired_upload_rate_kbits, s.desired_download_rate_kbits,
                    nonBlockingFails)

\* The command whose write may come back short in one run of WriteTCCommands:
\* none (0), or the first, with the other commands still to write.
ShortWrites(commands) ==
  {0} \cup ({1} \cap DOMAIN commands)

\* The writes of one run of WriteTCCommands: one per command, in order, each
\* complete unless it is the short one.
WriteLoop(s, short) ==
  [i \in DOMAIN s.tc_commands |->
     [fd |-> s.tc_stdin, data |-> s.tc_commands[i], complete |-> i # short]]

\* WriteTCCommands leaving the write-ready watcher armed.
WriteTCCommandsKeepsWatcher(s, fd, short) ==
  IF fd # s.tc_stdin \/ s.tc_pid = 0
    THEN CheckFailed(s)
    ELSE [s EXCEPT !.writes = WriteLoop(s, short),
                   !.openFds = @ \ {s.tc_stdin},
                   !.tc_stdin = -1]

\* WriteTCCommands giving up at a short write: the commands after it are not
\* written and the operation is reported as failed.
WriteTCCommandsFailsOnShortWrite(s, fd, short) ==
  IF fd # s.tc_stdin \/ s.tc_pid = 0
    THEN CheckFailed(s)
    ELSE LET w == [s EXCEPT !.writes = IF short = 0 THEN WriteLoop(s, short)
                                       ELSE SubSeq(WriteLoop(s, short), 1, short),
                            !.tc_stdin_handler = NoHandler,
                            !.watched = <<>>,
                            !.openFds = @ \ {s.tc_stdin},
                            !.tc_stdin = -1]
         IN  IF short = 0 THEN w ELSE Done(w, w.callback_, kOperationFailed)

\* WriteTCCommands completing the operation once the commands are written,
\* without waiting for the process to exit.
WriteTCCommandsEndsChain(s, fd, short) ==
  IF fd # s.tc_stdin \/ s.tc_pid = 0
    THEN CheckFailed(s)
    ELSE Done([s EXCEPT !.writes = WriteLoop(s, short),
                        !.tc_stdin_handler = NoHandler,
                        !.watched = <<>>,
                        !.openFds = @ \ {s.tc_stdin},
                        !.tc_stdin = -1],
              s.callback_, kSuccess)

WriteTCCommands(s, fd, short) ==
  IF fd # s.tc_stdin \/ s.tc_pid = 0
    THEN CheckFailed(s)
    ELSE [s EXCEPT !.writes = WriteLoop(s, short),
                   !.tc_stdin_handler = NoHandler,
                   !.watched = <<>>,
                   !.openFds = @ \ {s.tc_stdin},
                   !.tc_stdin = -1]

\* The three CHECKs at the head of OnProcessExited.
OnProcessExitedChecks(s) ==
  /\ s.tc_pid # 0
  /\ s.tc_commands # <<>>
  /\ ~s.desired_throttling_enabled \/ s.tc_current_interface # NoInterface

\* The exit statuses that make a difference in s: OnProcessExited reads
\* exit_status after its CHECKs, so when one of them fails a single status
\* stands for all.
ExitStatusesRead(s) == IF OnProcessExitedChecks(s) THEN ExitStatuses ELSE {0}

\* OnProcessExited ending the chain when the process failed.
OnProcessExitedStopsOnFailure(s, exit_status, nonBlockingFails) ==
  IF \/ s.tc_pid = 0
     \/ s.tc_commands = <<>>
     \/ (s.desired_throttling_enabled /\ s.tc_current_interface = NoInterface)
    THEN CheckFailed(s)
    ELSE
      LET g == GetNextInterface(s)
      IN  IF g.interface_name = NoInterface
            THEN Done(g.s, g.s.callback_, kSuccess)
            ELSE IF exit_status # 0
              THEN Done(g.s, g.s.callback_, kOperationFailed)
              ELSE Throttle([g.s EXCEPT !.tc_pid = 0,
                                        !.tc_commands = <<>>,
                                        !.tc_current_interface = NoInterface],
                            g.s.callback_, g.interface_name,
                            g.s.desired_upload_rate_kbits,
                            g.s.desired_download_rate_kbits, nonBlockingFails)

\* OnProcessExited clearing the desired state when the process failed.
OnProcessExitedClearsOnFailure(s, exit_status, nonBlockingFails) ==
  IF \/ s.tc_pid = 0
     \/ s.tc_commands = <<>>
     \/ (s.desired_throttling_enabled /\ s.tc_current_interface = NoInterface)
    THEN CheckFailed(s)
    ELSE
      LET g == GetNextInterface(s)
          f == IF exit_status # 0 THEN ClearThrottleStatus(g.s) ELSE g.s
      IN  IF g.interface_name = NoInterface
            THEN Done(f, f.callback_, kSuccess)
            ELSE Throttle([f EXCEPT !.tc_pid = 0,
                                    !.tc_commands = <<>>,
                                    !.tc_current_interface = NoInterface],
                          f.callback_, g.interface_name,
                          g.s.desired_upload_rate_kbits,
                          g.s.desired_download_rate_kbits, nonBlockingFails)

\* OnProcessExited handing the two desired rates to Throttle the wrong way
\* round.
OnProcessExitedSwapsRates(s, exit_status, nonBlockingFails) ==
  IF \/ s.tc_pid = 0
     \/ s.tc_commands = <<>>
     \/ (s.desired_throttling_enabled /\ s.tc_current_interface = NoInterface)
    THEN CheckFailed(s)
    ELSE
      LET g == GetNextInterface(s)
      IN  IF g.interface_name = NoInterface
            THEN Done(g.s, g.s.callback_, kSuccess)
            ELSE Throttle([g.s EXCEPT !.tc_pid = 0,
                                      !.tc_commands = <<>>,
                                      !.tc_current_interface = NoInterface],
                          g.s.callback_, g.interface_name,
                          g.s.desired_download_rate_kbits,
                          g.s.desired_upload_rate_kbits, nonBlockingFails)

OnProcessExited(s, exit_status, nonBlockingFails) ==
  IF ~OnProcessExitedChecks(s)
    THEN CheckFailed(s)
    ELSE
      LET g == GetNextInterface(s)
      IN  IF g.interface_name = NoInterface
            THEN Done(g.s, g.s.callback_, kSuccess)
            ELSE Throttle([g.s EXCEPT !.tc_pid = 0,
                                      !.tc_commands = <<>>,
                                      !.tc_current_interface = NoInterface],
                          g.s.callback_, g.interface_name,
                          g.s.desired_upload_rate_kbits,
                          g.s.desired_download_rate_kbits, nonBlockingFails)

(***************************************************************************)
(* Init and the entries into the class.                                    *)
(***************************************************************************)
Init ==
  /\ tc_pid = 0
  /\ tc_commands = <<>>
  /\ tc_current_interface = NoInterface
  /\ tc_interfaces_to_throttle = <<>>
  /\ callback_ = NullCallback
  /\ desired_throttling_enabled = FALSE
  /\ desired_upload_rate_kbits = U32Zero
  /\ desired_download_rate_kbits = U32Zero
  /\ tc_stdin = -1
  /\ tc_stdin_handler = NoHandler
  /\ procs = <<>>
  /\ openFds = {}
  /\ watched = <<>>
  /\ aborted = FALSE
  /\ reqCount = 0
  /\ applyCount = 0
  /\ chain = [callback |-> NullCallback, op |-> "none", interfaces |-> <<>>,
              applied |-> 0, enabled |-> FALSE, queued |-> <<>>, direct |-> 0,
              rates |-> <<U32Zero, U32Zero>>]
  /\ spawnLog = <<>>
  /\ chainResult = <<>>
  /\ last = [op |-> "none", callback |-> NullCallback,
             rates |-> <<U32Zero, U32Zero>>, interfaces |-> <<>>, ret |-> TRUE,
             busy |-> FALSE, pending |-> 0, errors |-> <<>>, spawned |-> 0,
             queried |-> FALSE, exit_status |-> -1, writes |-> <<>>]

\* Store the record an entry returned.
Commit(s) ==
  /\ tc_pid' = s.tc_pid
  /\ tc_commands' = s.tc_commands
  /\ tc_current_interface' = s.tc_current_interface
  /\ tc_interfaces_to_throttle' = s.tc_interfaces_to_throttle
  /\ callback_' = s.callback_
  /\ desired_throttling_enabled' = s.desired_throttling_enabled
  /\ desired_upload_rate_kbits' = s.desired_upload_rate_kbits
  /\ desired_download_rate_kbits' = s.desired_download_rate_kbits
  /\ tc_stdin' = s.tc_stdin
  /\ tc_stdin_handler' = s.tc_stdin_handler
  /\ procs' = s.procs
  /\ openFds' = s.openFds
  /\ watched' = s.watched
  /\ aborted' = s.aborted

\* What the entry that produced s did, as seen from outside: its arguments
\* (exit_status is -1 for an entry that is not OnProcessExited), whether a
\* process was tracked and how many interfaces were queued when it was
\* entered, its return value, the errors it handed to a callback, the
\* number of processes it spawned, and what it wrote to which pipe.
Outcome(op, callback, rates, interfaces, exit_status, s) ==
  [op |-> op, callback |-> callback, rates |-> rates,
   interfaces |-> IF s.queried THEN interfaces ELSE <<>>,
   ret |-> s.ret, busy |-> tc_pid # 0,
   pending |-> Len(tc_interfaces_to_throttle),
   errors |-> [i \in DOMAIN s.runs |-> s.runs[i].error],
   spawned |-> Len(s.spawns), queried |-> s.queried,
   exit_status |-> exit_status, writes |-> s.writes]

\* The history of a top-level request: an accepted one becomes the chain the
\* logs follow, a refused one leaves the logs on the chain they followed.
Request(op, callback, rates, interfaces, s) ==
  /\ reqCount' = reqCount + 1
  /\ last' = Outcome(op, callback, rates, interfaces, -1, s)
  /\ IF s.ret /\ ~s.aborted
       THEN /\ chain' = [callback |-> callback, op |-> op,
                         interfaces |-> interfaces, applied |-> applyCount,
                         enabled |-> desired_throttling_enabled,
                         queued |-> <<>>, direct |-> 0, rates |-> rates]
            /\ spawnLog' = s.spawns
            /\ chainResult' = <<>>
       ELSE /\ chain' = chain
            /\ spawnLog' = spawnLog \o s.spawns
            /\ chainResult' = chainResult
  /\ UNCHANGED applyCount

\* The history of an entry that is not a top-level request; queued is the
\* interface the entry appended to the queue, if it did, and direct is the
\* number of the public call if the entry is an ApplyThrottleToNewInterface
\* call that started a process itself (0 if it is not).
Entry(op, exit_status, queued, direct, s) ==
  /\ last' = Outcome(op, NullCallback, <<U32Zero, U32Zero>>, <<>>, exit_status, s)
  /\ spawnLog' = spawnLog \o s.spawns
  /\ chainResult' =
       chainResult \o SelectSeq(s.runs, LAMBDA r : r.callback = chain.callback)
  /\ chain' = [chain EXCEPT !.queued = @ \o queued,
                             !.direct = IF direct > 0 THEN direct ELSE @]
  /\ UNCHANGED reqCount

\* Does the entry spawn a process?  The result of SetFdNonBlocking is an input
\* of the entries that do.
PipeResults(s) == IF s.spawns # <<>> THEN BOOLEAN ELSE {FALSE}

CallThrottleInterfaces ==
  /\ ~aborted
  /\ reqCount + applyCount < MaxCalls
  /\ \E rates \in RatePairs, interfaces \in InterfaceLists :
       \E ok \in {ThrottleInterfaces(Cur, reqCount + 1, rates[1], rates[2],
                                     interfaces, FALSE)} :
         \E nonBlockingFails \in PipeResults(ok) :
           \E s \in {IF nonBlockingFails
                       THEN ThrottleInterfaces(Cur, reqCount + 1, rates[1],
                                               rates[2], interfaces, TRUE)
                       ELSE ok} :
             /\ Commit(s)
             /\ Request("ThrottleInterfaces", reqCount + 1, rates, interfaces, s)

CallDisableThrottlingOnAllInterfaces ==
  /\ ~aborted
  /\ reqCount + applyCount < MaxCalls
  /\ \E interfaces \in InterfaceLists :
       \E ok \in {DisableThrottlingOnAllInterfaces(Cur, reqCount + 1, interfaces,
                                                   FALSE)} :
         \E nonBlockingFails \in PipeResults(ok) :
           \E s \in {IF nonBlockingFails
                       THEN DisableThrottlingOnAllInterfaces(Cur, reqCount + 1,
                                                             interfaces, TRUE)
                       ELSE ok} :
             /\ Commit(s)
             /\ Request("DisableThrottlingOnAllInterfaces", reqCount + 1,
                        <<U32Zero, U32Zero>>, interfaces, s)

CallApplyThrottleToNewInterface ==
  /\ ~aborted
  /\ reqCount + applyCount < MaxCalls
  /\ \E ok \in {ApplyThrottleToNewInterface(Cur, NewInterface(applyCount + 1),
                                            FALSE)} :
       \E nonBlockingFails \in PipeResults(ok) :
         \E s \in {IF nonBlockingFails
                     THEN ApplyThrottleToNewInterface(
                            Cur, NewInterface(applyCount + 1), TRUE)
                     ELSE ok} :
           /\ Commit(s)
           /\ Entry("ApplyThrottleToNewInterface", -1,
                    IF Len(s.tc_interfaces_to_throttle) >
                         Len(tc_interfaces_to_throttle)
                      THEN <<NewInterface(applyCount + 1)>> ELSE <<>>,
                    IF s.spawns # <<>> THEN reqCount + applyCount + 1 ELSE 0,
                    s)
           /\ applyCount' = applyCount + 1

\* The event loop reports the watched stdin pipe writable.
StdinWritable ==
  /\ ~aborted
  /\ tc_stdin_handler # NoHandler
  /\ \E short \in ShortWrites(tc_commands) :
     \E s \in {WriteTCCommands(Cur, tc_stdin_handler, short)} :
       /\ Commit(s)
       /\ Entry("WriteTCCommands", -1, <<>>, 0, s)
       /\ UNCHANGED applyCount

\* A spawned tc process exits and the process manager runs its exit callback.
ProcessExits ==
  /\ ~aborted
  /\ \E pid \in DOMAIN procs, exit_status \in ExitStatusesRead(Cur) :
       \E before \in {[Cur EXCEPT !.procs = [p \in DOMAIN @ \ {pid} |-> @[p]]]} :
         \E ok \in {OnProcessExited(before, exit_status, FALSE)} :
           \E nonBlockingFails \in PipeResults(ok) :
             \E s \in {IF nonBlockingFails
                         THEN OnProcessExited(before, exit_status, TRUE)
                         ELSE ok} :
               /\ Commit(s)
               /\ Entry("OnProcessExited", exit_status, <<>>, 0, s)
               /\ UNCHANGED applyCount

Next ==
  \/ CallThrottleInterfaces
  \/ CallDisableThrottlingOnAllInterfaces
  \/ CallApplyThrottleToNewInterface
  \/ StdinWritable
  \/ ProcessExits

Spec == Init /\ [][Next]_vars

\* ThrottleInterfaces called with a download rate from the whole range of
\* uint32_t and no upload rate.
CallThrottleInterfacesAnyRate ==
  /\ ~aborted
  /\ reqCount + applyCount < MaxCalls
  /\ \E download \in DownloadRates, interfaces \in InterfaceLists :
       \E ok \in {ThrottleInterfaces(Cur, reqCount + 1, U32Zero, download,
                                     interfaces, FALSE)} :
         \E nonBlockingFails \in PipeResults(ok) :
           \E s \in {IF nonBlockingFails
                       THEN ThrottleInterfaces(Cur, reqCount + 1, U32Zero,
                                               download, interfaces, TRUE)
                       ELSE ok} :
             /\ Commit(s)
             /\ Request("ThrottleInterfaces", reqCount + 1,
                        <<U32Zero, download>>, interfaces, s)

RateNext ==
  \/ CallThrottleInterfacesAnyRate
  \/ StdinWritable
  \/ ProcessExits

\* The program driven by ThrottleInterfaces calls over the range of rates.
RateSpec == Init /\ [][RateNext]_vars

(***************************************************************************)
(* Properties.                                                             *)
(***************************************************************************)
NoRates == <<U32Zero, U32Zero>>

\* The Throttler fields that make up a chain in flight.
chainVars == <<tc_pid, tc_commands, tc_current_interface,
               tc_interfaces_to_throttle, callback_>>
\* The desired configuration.
desiredVars == <<desired_throttling_enabled, desired_upload_rate_kbits,
                 desired_download_rate_kbits>>

\* The spawns made on behalf of the latest accepted request.
ChainSpawns == SelectSeq(spawnLog, LAMBDA sp : sp.callback = chain.callback)
Reverse(q) == [i \in DOMAIN q |-> q[Len(q) + 1 - i]]
IsPrefix(p, q) == Len(p) <= Len(q) /\ p = SubSeq(q, 1, Len(p))
\* No public call was made since the latest request was accepted.
ChainUndisturbed == reqCount = chain.callback /\ applyCount = chain.applied
\* No process of the chain had its non-blocking setup fail.
ChainPipesOk == \A i \in DOMAIN ChainSpawns : ~ChainSpawns[i].failed

\* C1: in every reachable state at most one spawned tc process has not yet
\* exited.
C1_AtMostOneProcess == Cardinality(DOMAIN procs) <= 1

C3_RefusedCallLeavesChain ==
  [][(/\ last'.op = "ThrottleInterfaces"
      /\ last'.busy
      /\ ~last'.ret
      /\ last'.errors = <<kWrongState>>)
     => UNCHANGED chainVars]_vars

\* C4: a DisableThrottlingOnAllInterfaces call made while a chain is in flight
\* returns false, reports kWrongState, spawns nothing, does not abort the
\* program and leaves the chain as it was.
C4_BusyDisableRefused ==
  (last.op = "DisableThrottlingOnAllInterfaces" /\ last.busy)
  => (/\ ~aborted
      /\ last.ret = FALSE
      /\ last.errors = <<kWrongState>>
      /\ last.spawned = 0)

\* C5: for an accepted ThrottleInterfaces request over N interfaces with no
\* other call during the chain, at most N processes are spawned for it, each
\* only when no earlier process of the chain is still running, and its
\* callback is run at most once, and only when all N have been spawned and
\* none of them is still running.  (Stated for the chains in which every
\* non-blocking pipe setup succeeded.)
C5_ChainSpawnsNThenCompletes ==
  (chain.op = "ThrottleInterfaces" /\ ChainUndisturbed /\ ChainPipesOk)
  => (/\ Len(ChainSpawns) <= Len(chain.interfaces)
      /\ \A i \in DOMAIN ChainSpawns : chain.callback \notin ChainSpawns[i].running
      /\ Len(chainResult) <= 1
      /\ chainResult # <<>> =>
           /\ Len(ChainSpawns) = Len(chain.interfaces)
           /\ chain.callback \notin chainResult[1].running)

\* C6: the callback of every top-level request is run exactly once: never
\* twice, at once when the request is refused, and no later than the exit of
\* the last process spawned for an accepted request.
C6_CallbackExactlyOnce ==
  /\ (last.callback # NullCallback /\ ~last.ret /\ ~aborted)
       => Len(last.errors) = 1
  /\ Len(chainResult) <= 1
  /\ (/\ chain.callback # NullCallback
      /\ ~aborted
      /\ chain.callback \notin Owners(procs))
       => Len(chainResult) = 1

\* C7: ThrottleInterfaces with both rates zero returns false, runs the
\* callback synchronously with kInvalidArguments, does not ask the manager for
\* the interface list and spawns nothing.
C7_ZeroRatesRefused ==
  (last.op = "ThrottleInterfaces" /\ last.rates = NoRates)
  => (/\ ~aborted
      /\ last.ret = FALSE
      /\ last.errors = <<kInvalidArguments>>
      /\ ~last.queried
      /\ last.spawned = 0)

C7_Witness ==
  /\ last.op = "ThrottleInterfaces"
  /\ last.rates = NoRates
  /\ last.errors = <<kInvalidArguments>>

\* C8: ThrottleInterfaces with both rates zero, in any state, leaves the pid,
\* the command list, the current interface, the interface queue, the stored
\* callback and the desired configuration as they were.
C8_ZeroRatesTouchNothing ==
  [][(last'.op = "ThrottleInterfaces" /\ last'.rates = NoRates)
     => (UNCHANGED chainVars /\ UNCHANGED desiredVars)]_vars

\* C9: ThrottleInterfaces with a nonzero rate, when the manager's interface
\* list is empty, returns false, runs the callback with kOperationFailed and
\* spawns nothing.
C9_NoInterfacesRefused ==
  (/\ last.op = "ThrottleInterfaces"
   /\ last.rates # NoRates
   /\ last.interfaces = <<>>)
  => (/\ ~aborted
      /\ last.ret = FALSE
      /\ last.errors = <<kOperationFailed>>
      /\ last.spawned = 0)

C9_Witness ==
  /\ last.op = "ThrottleInterfaces"
  /\ last.rates # NoRates
  /\ last.interfaces = <<>>
  /\ last.errors = <<kOperationFailed>>

\* The interfaces of the chain's own list for which a process was spawned, in
\* spawn order.
ChainOrder ==
  LET own == SelectSeq(ChainSpawns,
                       LAMBDA sp : \E i \in DOMAIN chain.interfaces :
                                     chain.interfaces[i] = sp.interface)
  IN  [i \in DOMAIN own |-> own[i].interface]

\* C10: in a chain started by ThrottleInterfaces over [i1, ..., iN] the
\* processes are spawned for iN, ..., i1 in that order, each interface once,
\* and none is skipped: when the Throttler is idle again, all N have been
\* processed.  (Stated for the chains in which every non-blocking pipe setup
\* succeeded.)
C10_ReverseOrderNoneSkipped ==
  (chain.op = "ThrottleInterfaces" /\ ChainPipesOk /\ ~aborted)
  => (/\ IsPrefix(ChainOrder, Reverse(chain.interfaces))
      /\ tc_pid = 0 => ChainOrder = Reverse(chain.interfaces))

Placeholders ==
  {kTemplateInterface, kTemplateULRate, kTemplateDLRate, kTemplateBurst}

\* The command line c is the template line t with every placeholder replaced
\* by something that is not a placeholder, the interface placeholder by name.
Instantiates(c, t, name) ==
  /\ Len(c) = Len(t)
  /\ \A i \in DOMAIN t :
       IF t[i] = kTemplateInterface THEN c[i] = name
       ELSE IF t[i] \in Placeholders THEN c[i] \notin Placeholders
       ELSE c[i] = t[i]

\* The template lines a throttle of (up, down) is made of, in order.
ThrottleTemplates(up, down) ==
  kTCCleanUpCmds
    \o (IF up # U32Zero THEN kTCThrottleUplinkCmds ELSE <<>>)
    \o (IF down # U32Zero THEN kTCThrottleDownlinkCmds ELSE <<>>)

\* A process started by Throttle is tracked: Throttle is the one function that
\* sets tc_current_interface_, and the rates it is called with are the
\* desired rates of that moment.
ThrottleTracked == tc_pid # 0 /\ tc_current_interface # NoInterface

\* C11: the command list Throttle builds for an interface (a device name, no
\* placeholder text in it) and rates (up, down) is the 2 clean-up lines, then
\* the 3 uplink lines iff up > 0, then the 2 downlink lines iff down > 0, in
\* that order, with the interface name in place of every ${INTERFACE} and no
\* placeholder left in any line.
C11_ThrottleCommandList ==
  ThrottleTracked =>
    LET templates == ThrottleTemplates(desired_upload_rate_kbits,
                                       desired_download_rate_kbits)
    IN  /\ Len(tc_commands) = Len(templates)
        /\ \A i \in DOMAIN templates :
             Instantiates(tc_commands[i], templates[i], tc_current_interface)
        /\ \A i \in DOMAIN tc_commands : \A j \in DOMAIN tc_commands[i] :
             tc_commands[i][j] \notin Placeholders

C11_Witness ==
  /\ ThrottleTracked
  /\ desired_upload_rate_kbits # U32Zero
  /\ desired_download_rate_kbits # U32Zero
  /\ Len(tc_commands) = 7

\* The latest entry was the exit notification that ended a chain: the queue
\* was empty and the stored callback was run.
ChainEnded ==
  /\ last.op = "OnProcessExited"
  /\ last.spawned = 0
  /\ last.errors # <<>>

\* C12: the error handed to the completion callback when a chain ends is
\* kSuccess if the last process exited with status 0 and kOperationFailed if
\* it exited with a nonzero status.
C12_FinalStatusIsLastExitCode ==
  ChainEnded =>
    last.errors = <<IF last.exit_status = 0 THEN kSuccess ELSE kOperationFailed>>

\* C13: when a tc process exits with a nonzero status while interfaces are
\* still queued, the chain goes on: the exit notification spawns the process
\* for the next interface (one process, one interface off the queue per
\* exit), and the program does not stop.
C13_FailedExitContinuesChain ==
  (/\ last.op = "OnProcessExited"
   /\ last.exit_status # 0
   /\ last.pending > 0)
  => (/\ ~aborted
      /\ last.spawned = 1
      /\ spawnLog[Len(spawnLog)].interface # NoInterface)

C13_Witness ==
  /\ last.op = "OnProcessExited"
  /\ last.exit_status # 0
  /\ last.pending > 1
  /\ last.spawned = 1
  /\ Len(tc_interfaces_to_throttle) = last.pending - 1

\* The Throttler is Idle: nothing tracked, nothing queued, no callback held.
Idle ==
  /\ tc_pid = 0
  /\ tc_commands = <<>>
  /\ tc_current_interface = NoInterface
  /\ tc_interfaces_to_throttle = <<>>
  /\ callback_ = NullCallback

\* The latest accepted request is a disable that was made with no process
\* tracked or running, whose pipe setup succeeded, and no public call was
\* made since.
CleanDisable ==
  /\ chain.op = "DisableThrottlingOnAllInterfaces"
  /\ ChainUndisturbed
  /\ ChainPipesOk
  /\ ChainSpawns # <<>>
  /\ ChainSpawns[1].running = {}

\* C14: DisableThrottlingOnAllInterfaces called in Idle while no throttling
\* is desired is accepted (returns true) and spawns one tc process; when
\* that process has exited the callback has been run once, with kSuccess,
\* the Throttler is Idle again and the program is still running.  Every
\* such call has this outcome, a second one after the first included.
C14_IdleDisableSucceeds ==
  (CleanDisable /\ ~chain.enabled)
  => (/\ Len(ChainSpawns) = 1
      /\ chain.callback \notin Owners(procs) =>
           /\ ~aborted
           /\ Len(chainResult) = 1
           /\ chainResult[1].error = kSuccess
           /\ Idle)

\* The two clean-up lines of one interface, written out.
CleanUpLines(name) ==
  << <<"qdisc del dev ", name, " root\n">>,
     <<"qdisc del dev ", name, " ingress\n">> >>

\* C15: DisableThrottlingOnAllInterfaces called with no process tracked, over
\* an interface list of N names, spawns exactly one tc process; its command
\* list is the 2 clean-up lines of each interface in list order (2N lines,
\* nothing else), and the caller's callback is stored; once that process has
\* exited, the callback has been run exactly once.
C15_DisableIsOneProcess ==
  /\ (last.op = "DisableThrottlingOnAllInterfaces" /\ ~last.busy)
       => /\ last.spawned = 1
          /\ last.ret =>
               /\ Len(tc_commands) = 2 * Len(last.interfaces)
               /\ \A n \in DOMAIN last.interfaces :
                    SubSeq(tc_commands, 2 * n - 1, 2 * n)
                      = CleanUpLines(last.interfaces[n])
               /\ callback_ = last.callback
  /\ CleanDisable
       => /\ Len(ChainSpawns) = 1
          /\ Len(chainResult) <= 1
          /\ chain.callback \notin Owners(procs) => Len(chainResult) = 1

\* C16: once DisableThrottlingOnAllInterfaces has returned true, and until a
\* later ThrottleInterfaces call is accepted, every
\* ApplyThrottleToNewInterface call returns false, spawns nothing and queues
\* nothing.
C16_DisableStopsApply ==
  (/\ chain.op = "DisableThrottlingOnAllInterfaces"
   /\ last.op = "ApplyThrottleToNewInterface")
  => (/\ ~last.ret
      /\ last.spawned = 0
      /\ chain.queued = <<>>)

\* C17: an ApplyThrottleToNewInterface call made while no throttling is
\* desired returns false, spawns nothing, runs no callback, and leaves the
\* queue, the pid, the command list, the current interface, the stored
\* callback, the desired configuration and the running processes as they
\* were.
C17_ApplyNoOpWhenNotDesired ==
  [][(applyCount' # applyCount /\ ~desired_throttling_enabled)
     => (/\ ~last'.ret
         /\ last'.spawned = 0
         /\ last'.errors = <<>>
         /\ ~aborted'
         /\ UNCHANGED chainVars
         /\ UNCHANGED desiredVars
         /\ UNCHANGED <<procs, tc_stdin, tc_stdin_handler, openFds>>)]_vars

C17_Witness ==
  /\ last.op = "ApplyThrottleToNewInterface"
  /\ ~desired_throttling_enabled
  /\ ~last.ret
  /\ tc_pid # 0

\* A process was spawned for the interface since the latest accepted request.
SpawnedFor(name) == \E i \in DOMAIN spawnLog : spawnLog[i].interface = name
\* The interface is waiting in the queue.
Waiting(name) ==
  \E i \in DOMAIN tc_interfaces_to_throttle : tc_interfaces_to_throttle[i] = name

\* C18: an interface that ApplyThrottleToNewInterface queued during a chain
\* (the call returned true and spawned nothing) is not lost: it stays in the
\* queue until a tc process is spawned for it, and the chain's completion
\* callback is not run while it is still waiting or before its process has
\* been spawned.
C18_QueuedInterfaceProcessed ==
  \A k \in DOMAIN chain.queued :
    /\ Waiting(chain.queued[k]) \/ SpawnedFor(chain.queued[k])
    /\ chainResult # <<>> => SpawnedFor(chain.queued[k])

\* The latest public call is an ApplyThrottleToNewInterface call that started
\* a process itself, at a moment when no tc process was running.
ApplyDirect ==
  /\ chain.direct > 0
  /\ chain.direct = reqCount + applyCount
  /\ spawnLog # <<>>
  /\ spawnLog[Len(spawnLog)].running = {}

\* C19: ApplyThrottleToNewInterface called while throttling is desired and no
\* process is in flight spawns one tc process for the interface it was given,
\* under an empty callback, with the command list of the desired rates; when
\* that process has exited the Throttler is Idle, the exit notification has
\* run no callback, and the program is still running.
C19_ApplyStartsAtOnce ==
  ApplyDirect =>
    LET sp == spawnLog[Len(spawnLog)]
        templates == ThrottleTemplates(desired_upload_rate_kbits,
                                       desired_download_rate_kbits)
    IN  /\ sp.interface = NewInterface(applyCount)
        /\ sp.callback = NullCallback
        /\ last.op = "ApplyThrottleToNewInterface" =>
             /\ last.spawned = 1
             /\ last.errors = <<>>
             /\ last.ret =>
                  /\ Len(tc_commands) = Len(templates)
                  /\ \A i \in DOMAIN templates :
                       Instantiates(tc_commands[i], templates[i], sp.interface)
        /\ procs = <<>> => Idle
        /\ last.op = "OnProcessExited" => (~aborted /\ last.errors = <<>>)

\* C20: right after an entry in which Done ran a completion callback, whatever
\* the error, the Throttler is Idle (pid 0, no commands, no current
\* interface, empty queue, no stored callback) and no spawned tc process is
\* still running.
C20_DoneLeavesCleanIdle ==
  last.errors # <<>> => (Idle /\ procs = <<>>)

\* The latest process was spawned while no other tc process was running, and
\* the non-blocking setup of its stdin pipe failed.
PipeSetupFailed ==
  /\ spawnLog # <<>>
  /\ spawnLog[Len(spawnLog)].failed
  /\ spawnLog[Len(spawnLog)].running = {}

\* C21: when SetFdNonBlocking fails, the entry that spawned the process
\* returns false, the completion callback (if there is one) has been run with
\* kOperationFailed, no write-ready watcher is armed for the pipe and the
\* chain state is cleared; and nothing is left dangling: the program keeps
\* running when the spawned process later exits.
C21_PipeFailureLeavesNothing ==
  PipeSetupFailed =>
    /\ Idle
    /\ last.spawned = 1 =>
         /\ ~last.ret
         /\ tc_stdin_handler # tc_stdin
         /\ spawnLog[Len(spawnLog)].callback # NullCallback
              => last.errors = <<kOperationFailed>>
    /\ ~aborted

C23_DesiredHasARate ==
  /\ desired_throttling_enabled
       => (desired_upload_rate_kbits # U32Zero
           \/ desired_download_rate_kbits # U32Zero)
  /\ (last.op = "ApplyThrottleToNewInterface" /\ last.spawned = 1 /\ last.ret)
       => (/\ Len(tc_commands) > Len(kTCCleanUpCmds)
           /\ SubSeq(tc_commands, 1, 2) = CleanUpLines(tc_current_interface))

C23_Witness ==
  /\ last.op = "ApplyThrottleToNewInterface"
  /\ last.spawned = 1
  /\ last.ret
  /\ desired_throttling_enabled
  /\ Len(tc_commands) = 5

\* The tracked process was spawned for the latest accepted ThrottleInterfaces
\* request: Throttle stored that request's callback when it started it.
TrackedInChain ==
  /\ chain.op = "ThrottleInterfaces"
  /\ tc_pid # 0
  /\ callback_ = chain.callback

\* C24: every process of a ThrottleInterfaces(cb, up, down) chain, the first
\* one and every one started from the exit callback, has the command list
\* that Throttle builds for its interface from the rates (up, down) of that
\* call.
C24_ChainKeepsRates ==
  TrackedInChain =>
    tc_commands = ThrottleCommands(tc_current_interface, chain.rates[1],
                                   chain.rates[2])

C24_Witness ==
  /\ TrackedInChain
  /\ last.op = "OnProcessExited"
  /\ last.spawned = 1
  /\ Len(ChainSpawns) = Len(chain.interfaces)
  /\ chain.rates = <<U32(2000), U32Zero>>

\* C25: when the write-ready callback runs (and passes its CHECKs) it writes
\* to a pipe that is still open, so one never written before; it makes one
\* write per command the pipe's process was started for, in command-list
\* order; then the watcher is deregistered and the pipe closed, so the
\* callback cannot run for that process again and nothing follows the close.
\* No other entry writes to a pipe.
C25_CommandsWrittenOnce ==
  [][/\ (last'.op = "WriteTCCommands" /\ ~aborted')
          => /\ tc_stdin_handler \in openFds
             /\ [i \in DOMAIN last'.writes |->
                   [fd |-> last'.writes[i].fd, data |-> last'.writes[i].data]]
                  = [i \in DOMAIN watched |->
                       [fd |-> tc_stdin_handler, data |-> watched[i]]]
             /\ tc_stdin_handler \notin openFds'
             /\ tc_stdin_handler' = NoHandler
     /\ (last'.op # "WriteTCCommands" \/ aborted') => last'.writes = <<>>]_vars

C25_Witness ==
  /\ last.op = "WriteTCCommands"
  /\ ~aborted
  /\ Len(last.writes) = 7
  /\ tc_stdin_handler = NoHandler
  /\ tc_pid # 0

\* The last step was a run of WriteTCCommands in which a write came back short.
ShortWriteHappened ==
  /\ last.op = "WriteTCCommands"
  /\ ~aborted
  /\ \E i \in DOMAIN last.writes : ~last.writes[i].complete

\* C26: a short write of a command to the stdin pipe neither fails the
\* operation nor is retried: every command of the list is still written once,
\* the pipe is closed, the callback gets no error, and the process, its
\* commands, the queue, the stored callback, the desired configuration and the
\* spawned processes are left as a complete write leaves them, so that the
\* chain goes on with the exit of the process.
C26_ShortWriteIsIgnored ==
  [][ShortWriteHappened' =>
       /\ Len(last'.writes) = Len(tc_commands)
       /\ \A i \in DOMAIN last'.writes : last'.writes[i].data = tc_commands[i]
       /\ last'.errors = <<>>
       /\ tc_stdin_handler \notin openFds'
       /\ tc_stdin' = -1
       /\ tc_stdin_handler' = NoHandler
       /\ tc_pid' = tc_pid /\ tc_pid # 0
       /\ UNCHANGED <<chainVars, desiredVars, procs, chain, chainResult, spawnLog>>
       /\ openFds' = openFds \ {tc_stdin_handler}]_vars

C26_Witness ==
  /\ ShortWriteHappened
  /\ Len(last.writes) = 7
  /\ ~last.writes[1].complete
  /\ last.writes[7].complete
  /\ tc_pid # 0
  /\ tc_stdin = -1

\* The assumption of the liveness claims: a spawned tc process exits and its
\* exit callback is delivered.
FairSpec == Spec /\ WF_vars(ProcessExits)

\* C27 (under FairSpec): every accepted ThrottleInterfaces or
\* DisableThrottlingOnAllInterfaces request leads to its completion callback
\* having been invoked with the Throttler Idle.
C27_AcceptedChainCompletes ==
  \A c \in 1..MaxCalls :
    (chain.callback = c /\ chainResult = <<>>)
      ~> (chain.callback = c /\ chainResult # <<>> /\ Idle)

\* C28: without an exit notification the chain stalls: a step that is not
\* OnProcessExited never invokes the chain's completion callback (the record
\* of its invocations stays, or is emptied for a newly accepted request) and never
\* spawns a process while one is in flight, and a step that is neither
\* OnProcessExited nor a ThrottleInterfaces or
\* DisableThrottlingOnAllInterfaces call (a write to the pipe, an
\* ApplyThrottleToNewInterface call) leaves the process in flight, with its
\* commands, its interface and the stored callback, and takes nothing from
\* the queue.
C28_NoExitNoProgress ==
  [][last'.op # "OnProcessExited" =>
       /\ chainResult' \in {chainResult, <<>>}
       /\ tc_pid # 0 => last'.spawned = 0
       /\ (tc_pid # 0 /\ last'.op \in {"WriteTCCommands",
                                        "ApplyThrottleToNewInterface"})
            => /\ UNCHANGED <<tc_pid, tc_commands, tc_current_interface,
                              callback_, procs>>
               /\ IsPrefix(tc_interfaces_to_throttle, tc_interfaces_to_throttle')
               /\ last'.errors = <<>>]_vars

C28_Witness ==
  /\ last.op = "WriteTCCommands"
  /\ ~aborted
  /\ tc_pid # 0
  /\ tc_pid \in DOMAIN procs
  /\ tc_interfaces_to_throttle # <<>>
  /\ chain.callback # NullCallback
  /\ chainResult = <<>>
  /\ tc_stdin_handler = NoHandler

\* 2 * r as a number of three 16-bit limbs, which holds it whole.
Twice(r) ==
  [top |-> (r.hi * 2 + (r.lo * 2) \div Limb) \div Limb,
   hi |-> (r.hi * 2 + (r.lo * 2) \div Limb) % Limb,
   lo |-> (r.lo * 2) % Limb]
WideDiv10(w) ==
  [top |-> w.top \div 10,
   hi |-> ((w.top % 10) * Limb + w.hi) \div 10,
   lo |-> ((((w.top % 10) * Limb + w.hi) % 10) * Limb + w.lo) \div 10]
WideMod10(w) == ((((w.top % 10) * Limb + w.hi) % 10) * Limb + w.lo) % 10

\* The decimal rendering of a three-limb number.
RECURSIVE Decimal(_)
Decimal(w) ==
  IF w.top = 0 /\ w.hi = 0 /\ w.lo < 10 THEN DigitChar[w.lo + 1]
  ELSE Decimal(WideDiv10(w)) \o DigitChar[WideMod10(w) + 1]

\* C29 (under RateSpec): in the command list Throttle builds for a nonzero
\* download rate, the downlink filter line has the decimal rendering of the
\* rate followed by "kbit" in place of ${DLRATE} and the decimal rendering of
\* exactly twice the rate in place of ${BURST}.
C29_BurstIsExactlyTwiceTheRate ==
  (ThrottleTracked /\ desired_download_rate_kbits # U32Zero) =>
    LET t == kTCThrottleDownlinkCmds[Len(kTCThrottleDownlinkCmds)]
        line == tc_commands[Len(tc_commands)]
        down == desired_download_rate_kbits
    IN  /\ Len(line) = Len(t)
        /\ \A i \in DOMAIN t :
             /\ t[i] = kTemplateDLRate
                  => line[i] = Decimal([top |-> 0, hi |-> down.hi, lo |-> down.lo])
                                 \o "kbit"
             /\ t[i] = kTemplateBurst => line[i] = Decimal(Twice(down))

\* C30: when the last process of a ThrottleInterfaces chain has exited with a
\* nonzero status and OnProcessExited has ended the chain, the desired
\* throttling state is cleared: not enabled, both rates 0.
C30_FailedChainClearsDesired ==
  (/\ last.op = "OnProcessExited"
   /\ last.exit_status # 0
   /\ ~aborted
   /\ chain.op = "ThrottleInterfaces"
   /\ last.pending = 0
   /\ last.errors # <<>>
   /\ Idle)
    => /\ ~desired_throttling_enabled
       /\ desired_upload_rate_kbits = U32Zero
       /\ desired_download_rate_kbits = U32Zero

\* C31: no stdin pipe is leaked: every pipe handed back by a spawn and not
\* yet closed is the one held in tc_stdin_ with the write-ready watcher armed
\* for it, the watcher's callback being the one place where a pipe is closed.
C31_NoPipeLeaked ==
  ~aborted => \A fd \in openFds : fd = tc_stdin /\ fd = tc_stdin_handler

\* C32: CHECK(tc_pid_) holds at every exit notification: when OnProcessExited
\* is entered, tc_pid_ is not 0.
C32_ExitFindsProcessId ==
  [][last'.op = "OnProcessExited" => tc_pid # 0]_vars

\* C33: CHECK(!tc_commands_.empty()) holds at every exit notification that
\* reaches it: when OnProcessExited is entered with a nonzero tc_pid_, the
\* command list is not empty.
C33_ExitFindsCommands ==
  [][(last'.op = "OnProcessExited" /\ tc_pid # 0) => tc_commands # <<>>]_vars

\* C34: CHECK(tc_pid_) holds whenever the write-ready callback fires: when
\* WriteTCCommands is entered for the pipe held in tc_stdin_, tc_pid_ is not 0.
C34_WriteFindsProcessId ==
  [][(last'.op = "WriteTCCommands" /\ tc_stdin_handler = tc_stdin)
       => tc_pid # 0]_vars

\* C35: CHECK(!desired_throttling_enabled_ || !tc_current_interface_.empty())
\* holds at every exit notification: whenever OnProcessExited is entered
\* while throttling is desired, a current interface is recorded.
C35_ExitFindsInterface ==
  [][(last'.op = "OnProcessExited" /\ desired_throttling_enabled)
       => tc_current_interface # NoInterface]_vars

\* C36: a ThrottleInterfaces call that is rejected (zero rates, no interface,
\* or a chain in flight: it returns false without having spawned a process)
\* leaves the desired configuration, the flag and both rates, as it was.
C36_RejectedCallKeepsDesired ==
  [][(last'.op = "ThrottleInterfaces" /\ ~last'.ret /\ last'.spawned = 0)
       => UNCHANGED desiredVars]_vars

\* C37: the interface most recently queued by ApplyThrottleToNewInterface
\* during the chain is the next one processed: until a process has been
\* spawned for it, it is the last element of the queue, the one that
\* GetNextInterface takes at the next exit notification.
C37_QueuedInterfaceIsNext ==
  (~aborted /\ chain.queued # <<>>)
    => LET name == chain.queued[Len(chain.queued)]
       IN  \/ SpawnedFor(name)
           \/ /\ tc_interfaces_to_throttle # <<>>
              /\ tc_interfaces_to_throttle[Len(tc_interfaces_to_throttle)] = name

====
